---- MODULE Spec2Model ----
(***************************************************************************)
(* A model of the unified ChirpStack codec of product_decode_js:           *)
(*   decodeUplink   (src/README.md:1146-2181)  the TLV decode loop,        *)
(*   parseModbusBlock (src/README.md:689-771)  the register sub-decoder,   *)
(*   encodeDownlink / encodeW8004 (src/README.md:2418-2842),               *)
(*   modbusCRC16    (src/README.md:669-682),                               *)
(* and of the W8004 device codec's encodeDownlink                          *)
(*   (src/js/EF5600-DN1.js:723-845).                                       *)
(*                                                                         *)
(* Conventions.  Indices are the JavaScript ones (0-based): At(b, i) is    *)
(* b[i] of the source.  An attribute value is a tagged tuple:              *)
(*   Num(n)     the integer n                                              *)
(*   Dec(n, d)  the decimal n / d (a reading scaled by its divisor d)      *)
(*   Str(s)     the string whose character codes are the sequence s        *)
(*   Model(s)   a model name of MODEL_MAP                                  *)
(* A warning or error is a record [msg, type, pos]; type and pos are -1    *)
(* for the messages that carry no tag and no position.                     *)
(***************************************************************************)
EXTENDS Integers, Sequences, FiniteSets, TLC

VARIABLES
    bytes,      \* input.bytes of the decodeUplink call
    fPort,      \* input.fPort of the decodeUplink call
    idx,        \* decodeUplink's cursor
    data,       \* decodeUplink's attribute map
    errors,     \* decodeUplink's errors list
    warnings,   \* decodeUplink's warnings list
    pc,         \* decodeUplink's position: "start", "loop", "exit", "done"
    reads,      \* history: the indices of bytes read so far in the call
    codec,      \* which encodeDownlink is called: "unified" or "device"
    request,    \* input.data of the encodeDownlink call
    result,     \* what encodeDownlink returned: [bytes, fPort, errors, warnings]
    epc         \* encodeDownlink's position: "idle", "done"

vars == <<bytes, fPort, idx, data, errors, warnings, pc, reads,
          codec, request, result, epc>>

decodeVars == <<bytes, fPort, idx, data, errors, warnings, pc, reads>>
encodeVars == <<codec, request, result, epc>>

(***************************************************************************)
(* Bounds of the model.                                                    *)
(***************************************************************************)
MaxPayload == 5     \* bytes after the reserved byte, in the enumerated frames
MaxBlock == 6       \* bytes of a register block, in the enumerated block frames
MaxCrcLen == 3      \* bytes of a sequence handed to modbusCRC16 on its own
MaxSwitches == 4    \* relay/switch states (tag 0x22) in the enumerated switch frames

(***************************************************************************)
(* Values.                                                                 *)
(***************************************************************************)
Num(n) == <<"num", n>>
Dec(n, d) == <<"dec", n, d>>
Str(s) == <<"str", s>>
Model(s) == <<"model", s>>
List(s) == <<"list">> \o s
Bool(v) == <<"bool", v>>

EmptyMap == [k \in {} |-> Num(0)]

Put(d, k, v) == [x \in (DOMAIN d) \cup {k} |-> IF x = k THEN v ELSE d[x]]

Has(d, k) == k \in DOMAIN d

Msg(m) == [msg |-> m, type |-> -1, pos |-> -1]

Min(a, b) == IF a < b THEN a ELSE b

Max(a, b) == IF a > b THEN a ELSE b

(***************************************************************************)
(* The readers (src/README.md:553-612).                                    *)
(***************************************************************************)
At(b, i) == b[i + 1]

\* bytes[i] & 0xFF: an index past the end reads undefined, and undefined & 0xFF is 0.
Byte(b, i) == IF i < Len(b) THEN b[i + 1] ELSE 0

readUint8(b, i) == Byte(b, i)

readUint16BE(b, i) == Byte(b, i) * 256 + Byte(b, i + 1)

\* The same two bytes with the low byte first.
readInt16LE(b, i) ==
    LET val == Byte(b, i + 1) * 256 + Byte(b, i)
    IN  IF val >= 32768 THEN val - 65536 ELSE val

readInt16BE(b, i) ==
    LET val == readUint16BE(b, i)
    IN  IF val >= 32768 THEN val - 65536 ELSE val

\* (b0 << 24) | (b1 << 16) | (b2 << 8) | b3 is a signed 32-bit value in JavaScript.
readUint32BE(b, i) ==
    LET b0 == Byte(b, i)
        rest == Byte(b, i + 1) * 65536 + Byte(b, i + 2) * 256 + Byte(b, i + 3)
    IN  IF b0 >= 128 THEN (b0 - 256) * 16777216 + rest ELSE b0 * 16777216 + rest

\* while (i < bytes.length && bytes[i] !== 0x00) i++: the i the loop stops at.
RECURSIVE ScanEnd(_, _)
ScanEnd(b, i) == IF i < Len(b) /\ At(b, i) # 0 THEN ScanEnd(b, i + 1) ELSE i

\* The indices that loop reads: bytes[i] is read whenever i < bytes.length held.
RECURSIVE ScanReads(_, _)
ScanReads(b, i) ==
    IF i < Len(b)
    THEN {i} \cup (IF At(b, i) # 0 THEN ScanReads(b, i + 1) ELSE {})
    ELSE {}

readStringNullTerm(b, i) ==
    LET e == ScanEnd(b, i)
    IN  [str |-> SubSeq(b, i + 1, e), nextIndex |-> e + 1]

(***************************************************************************)
(* MODEL_MAP (src/README.md:497-546): the entries the frames below use;    *)
(* any other code c gives the name "unknown_0x<c>".                        *)
(***************************************************************************)
ModelName(code) ==
    CASE code = 1 -> Model("AN-301")
      [] code = 3 -> Model("AN-303")
      [] code = 9 -> Model("M102A")
      [] code = 70 -> Model("W8004")
      [] code = 92 -> Model("DS-103")
      [] code = 96 -> Model("SC001")
      [] OTHER -> <<"model", "unknown_0x", code>>

(***************************************************************************)
(* parseModbusBlock (src/README.md:689-771), the register sub-decoder.     *)
(***************************************************************************)
SentinelBase == 61440      \* 0xF000

\* One cell of the remote control status block (src/README.md:701-718).
ControlCell(register, val, out) ==
    LET valLow == val % 256
    IN  CASE register = SentinelBase -> Put(out, "powerState", Num(IF valLow = 1 THEN 1 ELSE 0))
          [] register = SentinelBase + 1 -> Put(out, "keyLockState", Num(valLow))
          [] register = SentinelBase + 2 -> Put(out, "rebootState", Num(valLow))
          [] register = SentinelBase + 3 -> Put(out, "clearState", Num(valLow))
          [] register = SentinelBase + 4 -> Put(out, "signalStrength", Num(valLow))
          [] OTHER -> out

\* One cell of the normal status block (src/README.md:732-765).
StatusCell(register, valU, out) ==
    LET valS == IF valU >= 32768 THEN valU - 65536 ELSE valU
        status == valU % 256
    IN  CASE register = 0 ->
               Put(Put(out, "hardwareVersion", Num((valU \div 256) % 256)),
                   "softwareVersion", Num(valU % 256))
          [] register = 1 ->
               Put(Put(Put(out, "powerState", Num(IF status % 2 = 0 THEN 1 ELSE 0)),
                       "keyLockState", Num(IF (status \div 2) % 2 = 1 THEN 1 ELSE 0)),
                   "valveState", Num(IF (status \div 4) % 2 = 1 THEN 0 ELSE 1))
          [] register = 2 -> Put(out, "temperature", Dec(valS, 100))
          [] register = 3 -> Put(out, "humidity", Dec(valU, 100))
          [] register = 4 -> Put(out, "setTemperature", Dec(valS, 100))
          [] register = 5 -> Put(out, "workMode", Num(valU % 256))
          [] register = 6 -> Put(out, "fanSpeed", Num(valU % 256))
          [] register = 7 -> Put(out, "cumulativeOnTime", Num(valU * 10))
          [] register = 8 -> Put(out, "cumulativeValveOpenTime", Num(valU * 10))
          [] OTHER -> out

\* The offsets the loop below takes, in order: one per iteration.
RECURSIVE RegisterOffsets(_, _)
RegisterOffsets(modBytes, offset) ==
    IF offset + 1 < Len(modBytes)
    THEN <<offset>> \o RegisterOffsets(modBytes, offset + 2)
    ELSE <<>>

\* The loop with "offset < modBytes.length" for its test: the last iteration
\* over a block of odd length reads modBytes[offset + 1] past the end, undefined,
\* which "|" takes as 0.
RECURSIVE RegisterLoopToEnd(_, _, _, _, _)
RegisterLoopToEnd(modBytes, offset, register, control, out) ==
    IF offset < Len(modBytes)
    THEN LET val == Byte(modBytes, offset) * 256 + Byte(modBytes, offset + 1)
         IN  RegisterLoopToEnd(modBytes, offset + 2, register + 1, control,
                               IF control THEN ControlCell(register, val, out)
                                          ELSE StatusCell(register, val, out))
    ELSE out

\* while (offset + 1 < modBytes.length) { ...; offset += 2; register += 1 }
RECURSIVE RegisterLoop(_, _, _, _, _)
RegisterLoop(modBytes, offset, register, control, out) ==
    IF offset + 1 < Len(modBytes)
    THEN LET val == At(modBytes, offset) * 256 + At(modBytes, offset + 1)
         IN  RegisterLoop(modBytes, offset + 2, register + 1, control,
                          IF control THEN ControlCell(register, val, out)
                                     ELSE StatusCell(register, val, out))
    ELSE out

\* A block parser that knows the normal status block only.
parseStatusBlock(modBytes, out) ==
    IF Len(modBytes) < 2 THEN out ELSE RegisterLoop(modBytes, 2, 0, FALSE, out)

parseModbusBlock(modBytes, out) ==
    IF Len(modBytes) < 2
    THEN out
    ELSE LET blockId == At(modBytes, 0) * 256 + At(modBytes, 1)
         IN  IF blockId = SentinelBase
             THEN RegisterLoop(modBytes, 2, SentinelBase, TRUE, out)
             ELSE RegisterLoop(modBytes, 2, 0, FALSE, out)

(***************************************************************************)
(* decodeUplink (src/README.md:1146-2181).                                 *)
(***************************************************************************)
\* Every case label of decodeUplink's switch.
CodecTypes ==
    {1, 2, 3, 4, 5, 6, 7, 8, 9, 10, 11, 12, 13, 14, 15, 16, 17, 18, 19, 20,
     21, 23, 24, 27, 33, 34, 36, 49, 58, 62, 67, 72, 73, 82, 87, 107, 109,
     115, 118, 119, 121, 125, 128, 129, 130, 132, 133, 147, 148, 149, 150,
     151, 152, 153, 154, 155, 159, 160, 168, 169, 170, 176, 184, 185, 186,
     189, 190, 191, 192, 193, 194, 195, 198, 199, 200, 203, 204, 205, 206,
     207, 208, 209, 210, 211, 212, 213, 214, 216, 217}

\* A guard that tests the first byte of the value only, whatever the width.
FitsFirstByte(b, i, width) == i < Len(b)

\* The negation of the guards "idx + width > bytes.length" ("idx >= bytes.length"
\* for one byte) that open the fixed-width cases.
Fits(b, i, width) == i + width <= Len(b)

\* A guard failed: warnings.push(...); break (out of the switch).
\* A truncated field that puts the cursor back on the tag it came from.
TruncatedBack(i, d, w, m) ==
    [idx |-> i - 1, data |-> d, warnings |-> Append(w, Msg(m)), reads |-> {}]

Truncated(i, d, w, m) ==
    [idx |-> i, data |-> d, warnings |-> Append(w, Msg(m)), reads |-> {}]

\* case 0x01 (src/README.md:1191-1198)
TypeModel(b, i, d, w) ==
    IF ~Fits(b, i, 1)
    THEN Truncated(i, d, w, "Truncated model field")
    ELSE [idx |-> i + 1, data |-> Put(d, "model", ModelName(At(b, i))),
          warnings |-> w, reads |-> {i}]

\* case 0x02 (src/README.md:1200-1207)
TypeDownlinkCount(b, i, d, w) ==
    IF ~Fits(b, i, 4)
    THEN Truncated(i, d, w, "Truncated downlink count")
    ELSE [idx |-> i + 4, data |-> Put(d, "downlinkCount", Num(readUint32BE(b, i))),
          warnings |-> w, reads |-> i..(i + 3)]

\* case 0x06, 0x09 (src/README.md:1242-1248, 1266-1272)
TypeString(b, i, d, w, name) ==
    LET r == readStringNullTerm(b, i)
    IN  [idx |-> r.nextIndex, data |-> Put(d, name, Str(r.str)),
         warnings |-> w, reads |-> ScanReads(b, i)]

\* A case 0x10 that keeps the temperature the map already has.
TypeTemperatureOnce(b, i, d, w) ==
    IF ~Fits(b, i, 2)
    THEN Truncated(i, d, w, "Truncated temperature")
    ELSE [idx |-> i + 2,
          data |-> IF Has(d, "temperature") THEN d
                   ELSE Put(d, "temperature", Dec(readInt16BE(b, i), 100)),
          warnings |-> w, reads |-> i..(i + 1)]

\* case 0x10 (src/README.md:1326-1334)
TypeTemperature(b, i, d, w) ==
    IF ~Fits(b, i, 2)
    THEN Truncated(i, d, w, "Truncated temperature")
    ELSE [idx |-> i + 2, data |-> Put(d, "temperature", Dec(readInt16BE(b, i), 100)),
          warnings |-> w, reads |-> i..(i + 1)]

\* case 0x22 (src/README.md:1427-1441): for a DS-103 the state is pushed onto
\* data.switchStates, for every other model it is the power state.
TypeSwitchState(b, i, d, w) ==
    IF ~Fits(b, i, 1)
    THEN Truncated(i, d, w, "Truncated relay/switch state")
    ELSE IF Has(d, "model") /\ d["model"] = Model("DS-103")
    THEN LET switchStates == IF Has(d, "switchStates") THEN Tail(d["switchStates"]) ELSE <<>>
         IN  [idx |-> i + 1,
              data |-> Put(d, "switchStates", List(Append(switchStates, At(b, i)))),
              warnings |-> w, reads |-> {i}]
    ELSE [idx |-> i + 1, data |-> Put(d, "powerState", Num(At(b, i))),
          warnings |-> w, reads |-> {i}]

\* case 0x80 (src/README.md:1615-1628), the timer status.  The switch has a
\* second "case 0x80" (src/README.md:1668-1676, the liquid level); a switch takes
\* the first clause whose label matches, so the second is never entered.  The
\* flags are bits 0, 1, 30 and 31 of the value, taken here from its first and
\* last byte.
TypeTimerStatus(b, i, d, w) ==
    IF ~Fits(b, i, 4)
    THEN Truncated(i, d, w, "Truncated timer status")
    ELSE LET timerStatus == readUint32BE(b, i)
             d1 == Put(d, "timerStatus", Num(timerStatus))
             d2 == Put(d1, "timerCloseEnabled", Bool(At(b, i + 3) % 2 = 1))
             d3 == Put(d2, "timerOpenEnabled", Bool((At(b, i + 3) \div 2) % 2 = 1))
             d4 == Put(d3, "timerLockEnabled", Bool((At(b, i) \div 64) % 2 = 1))
             d5 == Put(d4, "timerUnlockEnabled", Bool(At(b, i) >= 128))
         IN  [idx |-> i + 4, data |-> d5, warnings |-> w, reads |-> i..(i + 3)]

\* case 0x94 (src/README.md:1690-1696)
TypeRs485Addr(b, i, d, w) ==
    IF ~Fits(b, i, 1)
    THEN Truncated(i, d, w, "Truncated RS485 address")
    ELSE [idx |-> i + 1, data |-> Put(d, "rs485Addr", Num(At(b, i))),
          warnings |-> w, reads |-> {i}]

\* A slice that is empty whenever the declared length overruns the buffer.
EmptySliceOnOverrun(b, j, modbusLen) ==
    IF j + modbusLen > Len(b) THEN <<>> ELSE SubSeq(b, j + 1, j + modbusLen)

\* The slice of the block handed to parseModbusBlock: bytes.slice(j, endIdx).
ModbusSlice(b, j, modbusLen) == SubSeq(b, j + 1, Min(j + modbusLen, Len(b)))

\* case 0x95 (src/README.md:1699-1712)
TypeModbusBlock(b, i, d, w) ==
    IF ~Fits(b, i, 1)
    THEN Truncated(i, d, w, "Missing Modbus data length")
    ELSE LET modbusLen == At(b, i)
             j == i + 1
             endIdx == Min(j + modbusLen, Len(b))
             modbusBytes == ModbusSlice(b, j, modbusLen)
         IN  [idx |-> endIdx,
              data |-> parseModbusBlock(modbusBytes, d),
              warnings |-> IF j + modbusLen > Len(b)
                           THEN Append(w, Msg("Modbus block exceeds payload, trimming"))
                           ELSE w,
              reads |-> {i} \cup (j..(endIdx - 1))]

\* parseSimpleBeaconData (src/README.md:999-1031): thrown is the message of the
\* Error it throws, "" when it returns; out is the attribute map it leaves.
BeaconSize == 8

SignedByte(v) == IF v >= 128 THEN v - 256 ELSE v

\* `beacon${beaconIndex}`
BeaconName(beaconIndex) ==
    CASE beaconIndex = 0 -> "beacon0"
      [] beaconIndex = 1 -> "beacon1"
      [] beaconIndex = 2 -> "beacon2"

parseSimpleBeaconData(beaconBytes, out, beaconIndex) ==
    IF Len(beaconBytes) < BeaconSize
    THEN [thrown |-> "Beacon data too short", out |-> out]
    ELSE IF At(beaconBytes, 0) # BeaconSize - 1
    THEN [thrown |-> "Unexpected beacon data length", out |-> out]
    ELSE [thrown |-> "",
          out |-> Put(out, BeaconName(beaconIndex),
                      <<"beacon", readUint32BE(beaconBytes, 1),
                        SignedByte(At(beaconBytes, 5)), SignedByte(At(beaconBytes, 6)),
                        At(beaconBytes, 7), At(beaconBytes, 7) # 255>>)]

\* case 0xBA (src/README.md:1890-1909).  When parseSimpleBeaconData throws,
\* "idx = simpleBeaconEndIdx" is not reached: idx stays after the length byte.
TypeSimpleBeacon(b, i, d, w) ==
    IF ~Fits(b, i, 1)
    THEN Truncated(i, d, w, "Missing simple beacon data length")
    ELSE LET simpleBeaconLen == At(b, i)
             j == i + 1
             beaconIndex == IF Has(d, "beacon1") THEN 2
                            ELSE IF Has(d, "beacon0") THEN 1 ELSE 0
             simpleBeaconEndIdx == Min(j + simpleBeaconLen, Len(b))
             r == parseSimpleBeaconData(SubSeq(b, j + 1, simpleBeaconEndIdx), d, beaconIndex)
         IN  [idx |-> IF r.thrown = "" THEN simpleBeaconEndIdx ELSE j,
              data |-> r.out,
              warnings |-> IF j + simpleBeaconLen > Len(b)
                           THEN Append(w, Msg("Simple beacon data block exceeds payload, trimming"))
                           ELSE w,
              reads |-> {i} \cup (j..(simpleBeaconEndIdx - 1)),
              thrown |-> r.thrown]

\* default (src/README.md:2161-2166)
TypeUnknown(b, type, i, d, w) ==
    [idx |-> IF i < Len(b) THEN i + 1 ELSE i,
     data |-> d,
     warnings |-> Append(w, [msg |-> "Unknown type, skipping", type |-> type, pos |-> i - 1]),
     reads |-> {}]

\* The switch on the tag (src/README.md:1187-2167); i is idx after "idx++".  The
\* cases are those of the labels the frames below hold.
DecodeType(b, type, i, d, w) ==
    CASE type = 1 -> TypeModel(b, i, d, w)
      [] type = 2 -> TypeDownlinkCount(b, i, d, w)
      [] type = 6 -> TypeString(b, i, d, w, "bootVersion")
      [] type = 9 -> TypeString(b, i, d, w, "hardwareVersion")
      [] type = 16 -> TypeTemperature(b, i, d, w)
      [] type = 34 -> TypeSwitchState(b, i, d, w)
      [] type = 128 -> TypeTimerStatus(b, i, d, w)
      [] type = 148 -> TypeRs485Addr(b, i, d, w)
      [] type = 149 -> TypeModbusBlock(b, i, d, w)
      [] type = 186 -> TypeSimpleBeacon(b, i, d, w)
      [] type \notin CodecTypes -> TypeUnknown(b, type, i, d, w)

\* postProcessData (src/README.md:2187-2216).  The EX205 branch needs distance
\* (tag 0xB9), which is in no frame.  In the SC001 branch no alarm status has
\* been decoded, so safetyAlarms.some(alarm => alarm === 1) is false.
postProcessData(d) ==
    LET states == IF Has(d, "switchStates") THEN Tail(d["switchStates"]) ELSE <<>>
        d1 == IF Has(d, "model") /\ d["model"] = Model("DS-103") /\ Len(states) >= 3
              THEN Put(Put(Put(Put(d, "switch1State", Num(states[1])),
                               "switch2State", Num(states[2])),
                           "switch3State", Num(states[3])),
                       "powerState",
                       Num(IF states[1] = 1 \/ states[2] = 1 \/ states[3] = 1
                           THEN 1 ELSE 0))
              ELSE d
    IN  IF Has(d1, "model") /\ d1["model"] = Model("SC001")
        THEN Put(d1, "safetyAlarmActive", Num(0))
        ELSE d1

(***************************************************************************)
(* The frames decodeUplink is called on.                                   *)
(***************************************************************************)
\* 0x00, 0x60: no case label (0x60 is also SC001's model code); 0x01 model,
\* 0x02 downlink count, 0x06 boot version, 0x10 temperature, 0x95 Modbus block.
ByteVals == {0, 1, 2, 6, 16, 96, 149}

SeqsUpTo(S, n) == UNION {[1..k -> S] : k \in 0..n}

\* The empty buffer, and every frame of a reserved byte and up to MaxPayload bytes.
EnumFrames == {<<>>} \cup {<<0>> \o p : p \in SeqsUpTo(ByteVals, MaxPayload)}

\* 0xF0 0x00 is the block id of the remote control status block.
BlockVals == {0, 1, 240}

\* A Modbus block tag, a length byte that may or may not match, and a block.
BlockFrames ==
    {<<0, 149, n>> \o blk : n \in 0..(MaxBlock + 1), blk \in SeqsUpTo(BlockVals, MaxBlock)}

\* Up to MaxSwitches relay/switch states, of a DS-103 (model 0x5C) or of a
\* device that sent no model.
RECURSIVE SwitchSeqs(_)
SwitchSeqs(n) ==
    IF n = 0 THEN {<<>>}
    ELSE SwitchSeqs(n - 1) \cup {p \o <<34, v>> : p \in SwitchSeqs(n - 1), v \in {0, 1}}

SwitchFrames ==
    {<<0>> \o pre \o sw : pre \in {<<>>, <<1, 92>>}, sw \in SwitchSeqs(MaxSwitches)}

\* Tag 0x80 and up to four bytes after it.
LevelFrames == {<<0, 128>> \o v : v \in SeqsUpTo({0, 1, 250}, 4)}

\* A tag that comes twice: two temperatures, two register blocks, two beacons.
RepeatFrames ==
    {<<0, 16, 9, 196, 16, a, c>> : a \in {0, 255}, c \in {0, 100}}
    \cup {<<0, 149, 6, 0, 0, 0, 1, 0, 0, 149, 4, 0, 0, 1, 1>>,
           <<0, 186, 8, 7, 0, 0, 0, 1, 200, 200, 7,
                186, 8, 7, 0, 0, 0, 2, 200, 200, 200>>}

\* Frames of the documentation and the test suite, and each of their truncations.
ScenarioFrames ==
    { <<0, 16, 9, 196>>,                                   \* temperature 25.00
      <<0, 1, 70, 148, 1, 149, 12, 0, 0, 0, 0, 0, 0,
        10, 60, 19, 136, 9, 196>>,                         \* src/unnamed/part_004:939-951
      <<0, 1, 3, 238, 0, 6, 65, 0>>,                       \* model, tag 0xEE, boot version "A"
      <<0, 16, 9, 196, 2, 1, 96>>,                         \* temperature, short downlink count
      <<0, 149, 13, 240, 0, 0, 1, 0, 1, 0, 0, 0, 0,
        1, 3, 9>> }                                        \* remote control status block, odd length

Prefixes(f) == {SubSeq(f, 1, k) : k \in 0..Len(f)}

\* 0x07 is the length byte a simple beacon must start with; 0xC8 is negative
\* as a signed byte.
BeaconVals == {7, 200}

\* A simple beacon tag, alone or after a temperature, with a declared length
\* around the eight bytes of a beacon and a block of up to eight bytes.
BeaconFrames ==
    {pre \o <<186, n>> \o blk :
        pre \in {<<0>>, <<0, 16, 9, 196>>},
        n \in (BeaconSize - 1)..(BeaconSize + 1),
        blk \in SeqsUpTo(BeaconVals, BeaconSize)}

Frames ==
    EnumFrames \cup BlockFrames \cup BeaconFrames \cup SwitchFrames \cup LevelFrames
        \cup UNION {Prefixes(f) : f \in ScenarioFrames \cup RepeatFrames}

\* The uplink port, the control port and the AT port, and a port decodeUplink rejects.
FPorts == {210, 2, 1}

NoRequest ==
    [model |-> "", setTemperature |-> <<>>, workMode |-> <<>>, fanSpeed |-> <<>>,
     powerState |-> <<>>, keyLockState |-> <<>>, lockState |-> <<>>, rs485Addr |-> <<>>,
     remotePower |-> <<>>, remoteLock |-> <<>>, remoteReboot |-> <<>>,
     remoteClear |-> <<>>, wirelessSignal |-> <<>>, slaveAddr |-> <<>>,
     brightness |-> <<>>, at |-> <<>>, modbusRaw |-> <<>>, command |-> <<>>]
NoResult == [bytes |-> <<>>, fPort |-> 0, errors |-> <<>>, warnings |-> <<>>]

InitDecode ==
    /\ bytes \in Frames
    /\ fPort \in FPorts
    /\ idx = 0
    /\ data = EmptyMap
    /\ errors = <<>>
    /\ warnings = <<>>
    /\ pc = "start"
    /\ reads = {}
    /\ codec = "none"
    /\ request = NoRequest
    /\ result = NoResult
    /\ epc = "idle"

\* A port test that accepts the uplink port only.
OnlyUplinkPort(p) == p = 210

\* The negation of "fPort !== 210 && fPort !== 2 && fPort !== 220"
\* (src/README.md:1154-1156).
SupportedPort(p) == p = 210 \/ p = 2 \/ p = 220

\* A length test that rejects the empty payload only.
EmptyPayload(b) == Len(b) < 1

\* "bytes.length < 2" (src/README.md:1167)
TooShort(b) == Len(b) < 2

\* decodeUplink up to the loop (src/README.md:1146-1177): the fPort and the
\* minimum length are validated, and each failure returns at once.
DecodeEnter ==
    /\ pc = "start"
    /\ LET w == IF fPort # 210
                THEN <<[msg |-> "Expected fPort 210", type |-> -1, pos |-> fPort]>>
                ELSE <<>>
       IN  IF ~SupportedPort(fPort)
           THEN /\ errors' = <<[msg |-> "Unsupported fPort", type |-> -1, pos |-> fPort]>>
                /\ warnings' = w
                /\ pc' = "done"
                /\ idx' = idx
           ELSE IF TooShort(bytes)
           THEN /\ errors' = <<Msg("Payload too short (minimum 2 bytes required)")>>
                /\ warnings' = w
                /\ pc' = "done"
                /\ idx' = idx
           ELSE /\ errors' = errors
                /\ warnings' = w
                /\ pc' = "loop"
                /\ idx' = 1
    /\ UNCHANGED <<bytes, fPort, data, reads>>
    /\ UNCHANGED encodeVars

\* A switch outside any try: what a case throws leaves decodeUplink.
NoCatch(thrown) == IF thrown THEN "threw" ELSE "loop"

\* try { switch ... } catch (error) { errors.push(...); break; }
\* (src/README.md:1187, 2168-2171): what a case throws is caught and leaves the
\* while loop; otherwise the loop goes on.
TryCatch(thrown) == IF thrown THEN "exit" ELSE "loop"

\* One iteration of "while (idx < bytes.length)" (src/README.md:1180-2172).  With
\* idx < bytes.length the tag is never undefined.
DecodeStep ==
    /\ pc = "loop"
    /\ idx < Len(bytes)
    /\ LET type == At(bytes, idx)
           r == DecodeType(bytes, type, idx + 1, data, warnings)
           thrown == "thrown" \in DOMAIN r /\ r.thrown # ""
       IN  /\ idx' = r.idx
           /\ data' = r.data
           /\ warnings' = r.warnings
           /\ reads' = reads \cup {idx} \cup r.reads
           /\ pc' = TryCatch(thrown)
           /\ errors' = IF thrown
                         THEN Append(errors, [msg |-> "Parse error", type |-> type,
                                              pos |-> -1, error |-> r.thrown])
                         ELSE errors
    /\ UNCHANGED <<bytes, fPort>>
    /\ UNCHANGED encodeVars

\* The loop ends or is left: postProcessData(data); return {data, errors, warnings}
\* (src/README.md:2174-2181).
DecodeReturn ==
    /\ \/ pc = "loop" /\ idx >= Len(bytes)
       \/ pc = "exit"
    /\ data' = postProcessData(data)
    /\ pc' = "done"
    /\ UNCHANGED <<bytes, fPort, idx, errors, warnings, reads>>
    /\ UNCHANGED encodeVars

NextDecode == DecodeEnter \/ DecodeStep \/ DecodeReturn

SpecDecode == InitDecode /\ [][NextDecode]_vars

\* decodeUplink is one synchronous call: once entered, it runs on, statement
\* after statement, until it returns.
SpecDecodeFair == SpecDecode /\ WF_vars(NextDecode)

(***************************************************************************)
(* modbusCRC16 (src/README.md:669-682).                                    *)
(***************************************************************************)
\* a ^ b on non-negative integers.
RECURSIVE Xor(_, _)
Xor(a, b) ==
    IF a = 0 THEN b
    ELSE IF b = 0 THEN a
    ELSE ((a + b) % 2) + (2 * Xor(a \div 2, b \div 2))

CrcPoly == 40961        \* 0xA001
CrcInit == 65535        \* 0xFFFF

\* for (j = 0; j < 8; j++)
\*     if (crc & 0x0001) crc = (crc >> 1) ^ 0xA001; else crc >>= 1;
RECURSIVE CrcBits(_, _)
CrcBits(crc, j) ==
    IF j < 8
    THEN IF crc % 2 = 1
         THEN CrcBits(Xor(crc \div 2, CrcPoly), j + 1)
         ELSE CrcBits(crc \div 2, j + 1)
    ELSE crc

\* The step with "data[i] & 0x0F": the high four bits of the byte are dropped.
CrcLowNibble(crc, byte) == CrcBits(Xor(crc, byte % 16), 0)

\* crc ^= data[i] & 0xFF, then the eight shifts.
CrcByte(crc, byte) == CrcBits(Xor(crc, byte % 256), 0)

RECURSIVE CrcAccumulate(_, _, _)
CrcAccumulate(b, i, crc) ==
    \* crc is a 16-bit value throughout; naming that in the loop test makes
    \* the evaluation proceed byte by byte instead of nesting every byte's
    \* shifts inside the next one's.
    IF i < Len(b) /\ crc \in 0..CrcInit
    THEN CrcAccumulate(b, i + 1, CrcByte(crc, At(b, i)))
    ELSE crc

\* The two bytes in the other order: [(crc >> 8) & 0xFF, crc & 0xFF].
modbusCRC16HighFirst(b) ==
    LET crc == CrcAccumulate(b, 0, CrcInit)
    IN  <<(crc \div 256) % 256, crc % 256>>

\* [crc & 0xFF, (crc >> 8) & 0xFF]
modbusCRC16(b) ==
    LET crc == CrcAccumulate(b, 0, CrcInit)
    IN  <<crc % 256, (crc \div 256) % 256>>

(***************************************************************************)
(* Control requests.  A field of a request is <<>> when the request does   *)
(* not name it, and <<v>> when it names it with the value v.  The values   *)
(* of setTemperature, workMode and fanSpeed are in thousandths (25500 is   *)
(* 25.5), so that the rounding has something to round; the flags and the   *)
(* node identifiers are integers.                                          *)
(***************************************************************************)
Opt(S) == {<<>>} \cup {<<v>> : v \in S}

Defined(x) == x # <<>>

\* Math.round(m / 1000): the nearest integer, a half rounding up.
Round(m) == (m + 500) \div 1000

\* Math.round(Number(x) * 100) of x = m / 1000.
RoundTimes100(m) == (m + 5) \div 10

\* (v >> 8) & 0xFF and v & 0xFF, of an integer v of either sign.
HiByte(v) == (v \div 256) % 256
LoByte(v) == v % 256

\* The conversion made to consult a status the decoder keeps: while a decode
\* call is in its loop every flag comes out 0.
FlagShared(v) == IF v # 0 /\ pc # "loop" THEN 1 ELSE 0

\* Number(x) ? 1 : 0
Flag(v) == IF v # 0 THEN 1 ELSE 0

\* a.sort((x, y) => key(x) - key(y)), by insertion: keys[i] is the key of
\* a[i], and SortOrder is the order in which the sort leaves the indices.
RECURSIVE InsertIndex(_, _, _)
InsertIndex(order, i, keys) ==
    IF order = <<>> THEN <<i>>
    ELSE IF keys[i] < keys[Head(order)] THEN <<i>> \o order
    ELSE <<Head(order)>> \o InsertIndex(Tail(order), i, keys)

RECURSIVE SortOrder(_, _)
SortOrder(keys, n) ==
    IF n = 0 THEN <<>> ELSE InsertIndex(SortOrder(keys, n - 1), n, keys)

Sorted(a, keys) ==
    LET order == SortOrder(keys, Len(a))
    IN  [k \in 1..Len(a) |-> a[order[k]]]

\* The single write with the value's low byte first.
SingleWriteLowFirst(register, value) ==
    <<6, 6, HiByte(register), LoByte(register), LoByte(value), HiByte(value)>>

\* [0x06, 0x06, regHi, regLo, valHi, valLo]
\* (src/README.md:2468-2472, src/js/EF5600-DN1.js:796-802)
SingleWriteFrame(register, value) ==
    <<6, 6, HiByte(register), LoByte(register), HiByte(value), LoByte(value)>>

\* frame.push((attr.value >> 8) & 0xFF, attr.value & 0xFF) for each attribute
RECURSIVE ValueBytes(_)
ValueBytes(values) ==
    IF values = <<>> THEN <<>>
    ELSE <<HiByte(Head(values)), LoByte(Head(values))>> \o ValueBytes(Tail(values))

\* A warning or an error of an encode call: its text, and the attribute
\* names the text spells out.
Note(m, names) == [msg |-> m, fields |-> names]

(***************************************************************************)
(* encodeW8004 (src/README.md:2418-2518), of the unified codec.            *)
(***************************************************************************)
\* The attributes collected (src/README.md:2419-2460), in the order pushed.
W8004Attributes(d) ==
    (IF Defined(d.setTemperature)
     THEN <<[register |-> 4, value |-> RoundTimes100(d.setTemperature[1])]>> ELSE <<>>)
    \o (IF Defined(d.workMode)
        THEN <<[register |-> 5, value |-> Max(0, Min(3, Round(d.workMode[1])))]>> ELSE <<>>)
    \o (IF Defined(d.fanSpeed)
        THEN <<[register |-> 6, value |-> Max(0, Min(4, Round(d.fanSpeed[1])))]>> ELSE <<>>)
    \o (IF Defined(d.powerState)
        THEN <<[register |-> SentinelBase, value |-> Flag(d.powerState[1])]>> ELSE <<>>)
    \o (IF Defined(d.keyLockState)
        THEN <<[register |-> SentinelBase + 1, value |-> Flag(d.keyLockState[1])]>> ELSE <<>>)

\* A test that takes every sorted run for a consecutive one.
AlwaysConsecutive(attributes) == TRUE

\* for (i = 1 ..) if (a[i].register !== a[i - 1].register + 1) isConsecutive = false
isConsecutive(attributes) ==
    \A i \in 2..Len(attributes) :
        attributes[i].register = attributes[i - 1].register + 1

\* The frame with the 07 header put on before the CRC is taken, and so covered
\* by it.
W8004MultiWriteHeaderFirst(d, attributes) ==
    LET slaveAddr == IF Defined(d.rs485Addr) /\ d.rs485Addr[1] # 0 THEN d.rs485Addr[1] ELSE 1
        startReg == attributes[1].register
        regCount == Len(attributes)
        byteCount == regCount * 2
        frame == <<7, slaveAddr, 16, HiByte(startReg), LoByte(startReg),
                   HiByte(regCount), LoByte(regCount), byteCount>>
                 \o ValueBytes([i \in 1..Len(attributes) |-> attributes[i].value])
    IN  frame \o modbusCRC16(frame)

\* The Modbus frame, its CRC and the 07 header (src/README.md:2484-2510).
W8004MultiWrite(d, attributes) ==
    LET slaveAddr == IF Defined(d.rs485Addr) /\ d.rs485Addr[1] # 0 THEN d.rs485Addr[1] ELSE 1
        startReg == attributes[1].register
        regCount == Len(attributes)
        byteCount == regCount * 2
        frame == <<slaveAddr, 16, HiByte(startReg), LoByte(startReg),
                   HiByte(regCount), LoByte(regCount), byteCount>>
                 \o ValueBytes([i \in 1..Len(attributes) |-> attributes[i].value])
    IN  <<7>> \o frame \o modbusCRC16(frame)

encodeW8004(d) ==
    LET collected == W8004Attributes(d)
        attributes == Sorted(collected, [i \in 1..Len(collected) |-> collected[i].register])
    IN  IF Len(collected) = 0 THEN <<>>
        ELSE IF Len(collected) = 1
        THEN SingleWriteFrame(collected[1].register, collected[1].value)
        ELSE IF isConsecutive(attributes)
        THEN W8004MultiWrite(d, attributes)
        ELSE SingleWriteFrame(attributes[1].register, attributes[1].value)

\* encodeGenericSensor (src/README.md:2556-2559)
encodeGenericSensor(d) == <<>>

(***************************************************************************)
(* encodeDownlink of the unified codec (src/README.md:2591-2842), for a    *)
(* request that names none of at, serialPassthrough, modbusRaw, modbusHex  *)
(* and rawBytes: the device-specific control of mode 5.                    *)
(***************************************************************************)
UnifiedControlBytes(d) ==
    CASE d.model = "W8004" -> encodeW8004(d)
      [] d.model = "AN-303" -> encodeGenericSensor(d)
      [] OTHER ->
           IF Defined(d.powerState) THEN <<1, Flag(d.powerState[1])>>
           ELSE IF Defined(d.lockState) THEN <<2, Flag(d.lockState[1])>>
           ELSE <<>>

\* String(cmd).replace(/\r?\n/g, ''), on the character codes of cmd: every line
\* feed goes, with the carriage return before it if there is one.
RECURSIVE StripNewlines(_)
StripNewlines(cmd) ==
    IF cmd = <<>> THEN <<>>
    ELSE IF Head(cmd) = 10 THEN StripNewlines(Tail(cmd))
    ELSE IF Head(cmd) = 13 /\ Len(cmd) >= 2 /\ cmd[2] = 10
    THEN StripNewlines(Tail(Tail(cmd)))
    ELSE <<Head(cmd)>> \o StripNewlines(Tail(cmd))

\* The loop over atCommands (src/README.md:2606-2611): the stripped commands
\* that are not empty, in the order of the request.
RECURSIVE cmdStrings(_)
cmdStrings(atCommands) ==
    IF atCommands = <<>> THEN <<>>
    ELSE LET cmdStr == StripNewlines(Head(atCommands))
         IN  (IF Len(cmdStr) > 0 THEN <<cmdStr>> ELSE <<>>) \o cmdStrings(Tail(atCommands))

\* cmdStrings.join("\r\n") + "\r\n"
RECURSIVE joinedCmds(_)
joinedCmds(cmds) ==
    IF cmds = <<>> THEN <<13, 10>>
    ELSE IF Len(cmds) = 1 THEN Head(cmds) \o <<13, 10>>
    ELSE Head(cmds) \o <<13, 10>> \o joinedCmds(Tail(cmds))

\* a.map(b => b & 0xFF); joinedCmds.charCodeAt(i) & 0xFF
MaskBytes(a) == [k \in 1..Len(a) |-> a[k] % 256]

\* Mode 1, AT commands (src/README.md:2602-2636).  data.at is a string, taken as
\* the array of that one string, or an array of strings: d.at[1].cmds.
EncodeAt(d) ==
    LET cmds == cmdStrings(d.at[1].cmds)
    IN  IF Len(cmds) = 0
        THEN [bytes |-> <<>>, fPort |-> 220,
              errors |-> <<Note("Empty AT command provided", {})>>, warnings |-> <<>>]
        ELSE [bytes |-> <<255>> \o MaskBytes(joinedCmds(cmds)), fPort |-> 220,
              errors |-> <<>>, warnings |-> <<>>]

\* Mode 3, a raw Modbus frame (src/README.md:2679-2731), for data.modbusRaw.
EncodeModbusRaw(d) ==
    IF ~d.modbusRaw[1].array
    THEN [bytes |-> <<>>, fPort |-> 2,
          errors |-> <<Note("modbusRaw must be byte array", {})>>, warnings |-> <<>>]
    ELSE LET modbusFrame == MaskBytes(d.modbusRaw[1].v)
         IN  IF Len(modbusFrame) = 0
             THEN [bytes |-> <<>>, fPort |-> 2,
                   errors |-> <<Note("Empty Modbus frame", {})>>, warnings |-> <<>>]
             ELSE IF modbusFrame[1] = 6 \/ modbusFrame[1] = 7
             THEN [bytes |-> modbusFrame, fPort |-> 2, errors |-> <<>>, warnings |-> <<>>]
             ELSE [bytes |-> <<7>> \o modbusFrame, fPort |-> 2,
                   errors |-> <<>>, warnings |-> <<>>]

\* The requests name no serialPassthrough, modbusHex or rawBytes, so modes 2 and 4
\* never apply and mode 3 is entered for modbusRaw only.
UnifiedEncodeDownlink(d) ==
    IF Defined(d.at) THEN EncodeAt(d)
    ELSE IF Defined(d.modbusRaw) THEN EncodeModbusRaw(d)
    ELSE LET b == UnifiedControlBytes(d)
         IN  IF Len(b) > 0
             THEN [bytes |-> b, fPort |-> 2, errors |-> <<>>, warnings |-> <<>>]
             ELSE [bytes |-> <<>>, fPort |-> 2, errors |-> <<>>,
                   warnings |-> <<Note("No valid downlink command specified", {})>>]
(***************************************************************************)
(* The thermostat codec (src/js/EF5600-DN1.js): its register map, its      *)
(* value conversion and the control commands of its encodeDownlink.        *)
(***************************************************************************)
REGISTER_MAP ==
    << [field |-> "setTemperature", address |-> 4],
       [field |-> "workMode",       address |-> 5],
       [field |-> "fanSpeed",       address |-> 6],
       [field |-> "remotePower",    address |-> SentinelBase],
       [field |-> "remoteLock",     address |-> SentinelBase + 1],
       [field |-> "remoteReboot",   address |-> SentinelBase + 2],
       [field |-> "remoteClear",    address |-> SentinelBase + 3],
       [field |-> "wirelessSignal", address |-> SentinelBase + 4] >>

getValueForRegister(fieldName, value) ==
    CASE fieldName = "setTemperature" -> RoundTimes100(value)
      [] fieldName = "workMode" -> Max(0, Min(3, Round(value)))
      [] fieldName = "fanSpeed" -> Max(0, Min(4, Round(value)))
      [] fieldName \in {"remotePower", "remoteLock", "remoteReboot", "remoteClear"} ->
           Flag(value)
      [] fieldName = "wirelessSignal" -> Max(0, Min(3, Round(value)))
      [] OTHER -> value

\* A collection that also takes the entry "brightness" of the request, as a
\* write of register 0.
RECURSIVE CollectEveryEntry(_, _)
CollectEveryEntry(d, k) ==
    IF k > Len(REGISTER_MAP)
    THEN IF Defined(d.brightness)
         THEN <<[field |-> "brightness", address |-> 0, value |-> d.brightness[1]]>>
         ELSE <<>>
    ELSE LET fieldName == REGISTER_MAP[k].field
         IN  (IF Defined(d[fieldName])
              THEN <<[field |-> fieldName, address |-> REGISTER_MAP[k].address,
                      value |-> getValueForRegister(fieldName, d[fieldName][1])]>>
              ELSE <<>>)
             \o CollectEveryEntry(d, k + 1)

\* for (const [fieldName, registerAddr] of Object.entries(REGISTER_MAP)) ...
RECURSIVE CollectCommands(_, _)
CollectCommands(d, k) ==
    IF k > Len(REGISTER_MAP) THEN <<>>
    ELSE LET fieldName == REGISTER_MAP[k].field
         IN  (IF Defined(d[fieldName])
              THEN <<[field |-> fieldName, address |-> REGISTER_MAP[k].address,
                      value |-> getValueForRegister(fieldName, d[fieldName][1])]>>
              ELSE <<>>)
             \o CollectCommands(d, k + 1)

controlCommands(d) ==
    LET collected == CollectCommands(d, 1)
    IN  Sorted(collected, [i \in 1..Len(collected) |-> collected[i].address])

areRegistersConsecutive(commands) ==
    \A i \in 2..Len(commands) : commands[i].address = commands[i - 1].address + 1

\* The frame of the 07 instruction (src/js/EF5600-DN1.js:806-828).
DeviceMultiWrite(d, commands) ==
    LET slaveAddr == IF Defined(d.slaveAddr) /\ d.slaveAddr[1] # 0 THEN d.slaveAddr[1] ELSE 1
        startAddr == commands[1].address
        regCount == Len(commands)
        byteCount == regCount * 2
        modbusFrame == <<slaveAddr % 256, 16, HiByte(startAddr), LoByte(startAddr),
                         HiByte(regCount), LoByte(regCount), byteCount % 256>>
                       \o ValueBytes([i \in 1..Len(commands) |-> commands[i].value])
    IN  <<7>> \o modbusFrame \o modbusCRC16(modbusFrame)

\* The DS-501 block of the earlier unified codec (src/README.md:3875-3910): the
\* bytes it builds and the errors it pushes.  The commands of the requests are in
\* lower case already.
EarlierDS501(d) ==
    LET header == <<9, 72>>
    IN  IF Defined(d.command)
        THEN CASE d.command[1] = "query" -> [bytes |-> header \o <<14>>, errors |-> <<>>]
               [] d.command[1] \in {"immediate_off", "power_off"} ->
                    [bytes |-> header \o <<0, 1>>, errors |-> <<>>]
               [] d.command[1] \in {"immediate_on", "power_on"} ->
                    [bytes |-> header \o <<1, 1>>, errors |-> <<>>]
               [] d.command[1] = "unlock" -> [bytes |-> header \o <<2>>, errors |-> <<>>]
               [] d.command[1] = "lock" -> [bytes |-> header \o <<3>>, errors |-> <<>>]
               [] OTHER ->
                    [bytes |-> <<>>,
                     errors |-> <<Note("Unknown DS-501 command", {d.command[1]})>>]
        ELSE IF Defined(d.powerState)
        THEN [bytes |-> header \o <<Flag(d.powerState[1]), 1>>, errors |-> <<>>]
        ELSE IF Defined(d.lockState)
        THEN [bytes |-> header \o <<IF d.lockState[1] # 0 THEN 3 ELSE 2>>, errors |-> <<>>]
        ELSE [bytes |-> <<>>, errors |-> <<>>]

\* The closing warnings of the earlier unified codec (src/README.md:4039-4046).
EarlierNoCommand ==
    <<Note("No valid downlink command specified", {}),
      Note("Available options:", {}),
      Note("AT commands", {}), Note("Serial passthrough", {}), Note("Modbus raw", {}),
      Note("Device control", {}), Note("Raw bytes", {})>>

\* encodeDownlink of the earlier unified codec (src/README.md:3733-4049), mode 5,
\* for requests that name no at, serialPassthrough, modbusRaw, modbusHex or
\* rawBytes, and whose model is not W8004 and that name no setTemperature,
\* workMode or fanSpeed, so that the W8004 block (3926-4023) is passed over.  The
\* errors array is the one array of the call: what the DS-501 block pushed is
\* still in it when a later block returns.
EarlierEncodeDownlink(d) ==
    LET ds == IF d.model = "DS-501" \/ d.model = "DS501"
              THEN EarlierDS501(d)
              ELSE [bytes |-> <<>>, errors |-> <<>>]
    IN  IF Len(ds.bytes) > 0
        THEN [bytes |-> ds.bytes, fPort |-> 2, errors |-> ds.errors, warnings |-> <<>>]
        ELSE IF Defined(d.powerState)
        THEN [bytes |-> <<1, Flag(d.powerState[1])>>, fPort |-> 2,
              errors |-> ds.errors, warnings |-> <<>>]
        ELSE IF Defined(d.lockState)
        THEN [bytes |-> <<2, Flag(d.lockState[1])>>, fPort |-> 2,
              errors |-> ds.errors, warnings |-> <<>>]
        ELSE [bytes |-> <<>>, fPort |-> 2, errors |-> ds.errors,
              warnings |-> EarlierNoCommand]

\* Option 1 (src/js/EF5600-DN1.js:734-741) applies when data.at is a string; the
\* requests name no modbusBytes and no modbusHex, so options 2 and 3 never apply.
DeviceEncodeDownlink(d) ==
    LET commands == controlCommands(d)
    IN  IF Defined(d.at) /\ ~d.at[1].array
        THEN [bytes |-> <<255>> \o MaskBytes(d.at[1].cmds[1]) \o <<13, 10>>,
              fPort |-> 220, errors |-> <<>>, warnings |-> <<>>]
        ELSE IF Len(commands) = 0
        THEN [bytes |-> <<>>, fPort |-> 2, errors |-> <<>>,
              warnings |-> <<Note("No control fields detected. Available fields: ",
                                  {REGISTER_MAP[k].field : k \in 1..Len(REGISTER_MAP)})>>]
        ELSE IF Len(commands) = 1
        THEN [bytes |-> SingleWriteFrame(commands[1].address, commands[1].value),
              fPort |-> 2, errors |-> <<>>, warnings |-> <<>>]
        ELSE IF Len(commands) >= 2 /\ areRegistersConsecutive(commands)
        THEN [bytes |-> DeviceMultiWrite(d, commands),
              fPort |-> 2, errors |-> <<>>, warnings |-> <<>>]
        ELSE [bytes |-> SingleWriteFrame(commands[1].address, commands[1].value),
              fPort |-> 2, errors |-> <<>>,
              warnings |-> <<Note("Non-consecutive registers detected, only first command will be sent", {})>>]
(***************************************************************************)
(* The encode calls.  codec says which encodeDownlink is called, request   *)
(* is input.data and result is the object the call returns.                *)
(***************************************************************************)
Temperatures == {25500, 25504, -5000, 40000}
Modes == {1000, 5000}
Speeds == {2000, 2600}
NodeIds == {0, 7, 300}
\* Values of "brightness", a name neither codec looks up.
Unknowns == {50}

\* "AT+REBOOT" and "AT+CSQ?", as character codes.
AtReboot == <<65, 84, 43, 82, 69, 66, 79, 79, 84>>
AtQuery == <<65, 84, 43, 67, 83, 81, 63>>

\* data.at: a string (array is FALSE, cmds holds the one string) or an array of
\* strings.
AtValues ==
    {[array |-> FALSE, cmds |-> <<c>>] :
        c \in {<<>>, <<13, 10>>, AtQuery, AtQuery \o <<13, 10>>, AtReboot}}
    \cup {[array |-> TRUE, cmds |-> a] :
        a \in {<<>>, << <<>> >>, <<AtReboot, AtQuery>>, <<AtQuery, AtReboot>>,
               << <<>>, AtQuery>>}}

\* data.modbusRaw: an array of numbers, or something that is not an array.
RawValues ==
    {[array |-> TRUE, v |-> f] :
        f \in {<<>>, <<1, 3, 0, 0, 0, 2>>, <<6, 6, 0, 4, 9, 246>>, <<7, 1, 3>>,
               <<300, 16, -1>>}}
    \cup {[array |-> FALSE, v |-> <<>>]}

\* The requests that name at or modbusRaw, alone or next to a control attribute.
ModeRequests ==
    {[b EXCEPT !.at = a, !.modbusRaw = m] :
        b \in {NoRequest,
               [NoRequest EXCEPT !.model = "W8004", !.setTemperature = <<25500>>]},
        a \in Opt(AtValues), m \in Opt(RawValues)}

ControlUnifiedRequests ==
    [model : {"", "W8004", "AN-303"},
     setTemperature : Opt(Temperatures), workMode : Opt(Modes), fanSpeed : Opt(Speeds),
     powerState : Opt({0, 1}), keyLockState : Opt({1}), lockState : Opt({1}),
     rs485Addr : Opt(NodeIds),
     remotePower : {<<>>}, remoteLock : {<<>>}, remoteReboot : {<<>>},
     remoteClear : {<<>>}, wirelessSignal : {<<>>}, slaveAddr : {<<>>},
     brightness : Opt(Unknowns), at : {<<>>}, modbusRaw : {<<>>}, command : {<<>>}]

UnifiedRequests == ControlUnifiedRequests \cup ModeRequests

ControlDeviceRequests ==
    [model : {""},
     setTemperature : Opt(Temperatures), workMode : Opt(Modes), fanSpeed : Opt(Speeds),
     powerState : {<<>>}, keyLockState : {<<>>}, lockState : {<<>>}, rs485Addr : {<<>>},
     remotePower : Opt({0, 1}), remoteLock : Opt({1}), remoteReboot : Opt({1}),
     remoteClear : Opt({1}), wirelessSignal : Opt({2000}), slaveAddr : Opt(NodeIds),
     brightness : Opt(Unknowns), at : {<<>>}, modbusRaw : {<<>>}, command : {<<>>}]

DeviceRequests == ControlDeviceRequests \cup ModeRequests

\* Requests to the earlier unified codec: socket commands and the generic
\* switches.
EarlierRequests ==
    {[NoRequest EXCEPT !.model = m, !.command = c, !.powerState = p, !.lockState = l] :
        m \in {"", "DS-501"}, c \in Opt({"query", "power_on", "dim"}),
        p \in Opt({0, 1}), l \in Opt({0, 1})}

InitEncode ==
    /\ codec \in {"unified", "device", "earlier"}
    /\ request \in (CASE codec = "unified" -> UnifiedRequests
                      [] codec = "device" -> DeviceRequests
                      [] codec = "earlier" -> EarlierRequests)
    /\ result = NoResult
    /\ epc = "idle"
    /\ bytes = <<>>
    /\ fPort = 0
    /\ idx = 0
    /\ data = EmptyMap
    /\ errors = <<>>
    /\ warnings = <<>>
    /\ pc = "idle"
    /\ reads = {}

\* encodeDownlink of the unified codec (src/README.md:2591-2842)
EncodeUnified ==
    /\ epc = "idle"
    /\ codec = "unified"
    /\ result' = UnifiedEncodeDownlink(request)
    /\ epc' = "done"
    /\ UNCHANGED <<codec, request>>
    /\ UNCHANGED decodeVars

\* encodeDownlink of the thermostat codec (src/js/EF5600-DN1.js:726-844)
EncodeDevice ==
    /\ epc = "idle"
    /\ codec = "device"
    /\ result' = DeviceEncodeDownlink(request)
    /\ epc' = "done"
    /\ UNCHANGED <<codec, request>>
    /\ UNCHANGED decodeVars

\* encodeDownlink of the earlier unified codec (src/README.md:3733-4049)
EncodeEarlier ==
    /\ epc = "idle"
    /\ codec = "earlier"
    /\ result' = EarlierEncodeDownlink(request)
    /\ epc' = "done"
    /\ UNCHANGED <<codec, request>>
    /\ UNCHANGED decodeVars

NextEncode == EncodeUnified \/ EncodeDevice \/ EncodeEarlier

SpecEncode == InitEncode /\ [][NextEncode]_vars

(***************************************************************************)
(* A decode call and an encode call in progress at the same time.  Each    *)
(* call works on the constants and locals of its own activation            *)
(* (src/README.md:1146-1151, 2591-2596); the steps of the two interleave.  *)
(***************************************************************************)
ConcurrentFrames ==
    UNION {Prefixes(f) : f \in ScenarioFrames \cup RepeatFrames}

ConcurrentRequests ==
    ModeRequests
    \cup {[NoRequest EXCEPT !.model = m, !.setTemperature = t, !.workMode = w,
                            !.powerState = q] :
             m \in {"", "W8004"}, t \in Opt({25500}), w \in Opt({1000}), q \in Opt({0, 1})}

InitConcurrent ==
    /\ bytes \in ConcurrentFrames
    /\ fPort \in FPorts
    /\ idx = 0
    /\ data = EmptyMap
    /\ errors = <<>>
    /\ warnings = <<>>
    /\ pc = "start"
    /\ reads = {}
    /\ codec \in {"unified", "device", "earlier"}
    /\ request \in (IF codec = "earlier" THEN EarlierRequests ELSE ConcurrentRequests)
    /\ result = NoResult
    /\ epc = "idle"

NextConcurrent ==
    \/ DecodeEnter \/ DecodeStep \/ DecodeReturn
    \/ EncodeUnified \/ EncodeDevice \/ EncodeEarlier

SpecConcurrent == InitConcurrent /\ [][NextConcurrent]_vars

(***************************************************************************)
(* modbusCRC16 (src/README.md:669-682) called on its own: on a sequence,   *)
(* on the same sequence again, and on the sequence with one byte replaced. *)
(***************************************************************************)
CrcVals == {0, 1, 16, 128, 255}

CrcSeqs == SeqsUpTo(CrcVals, MaxCrcLen)

InitChecksum ==
    /\ bytes \in CrcSeqs
    /\ fPort = 0
    /\ idx = 0
    /\ data = EmptyMap
    /\ errors = <<>>
    /\ warnings = <<>>
    /\ pc = "idle"
    /\ reads = {}
    /\ codec = "none"
    /\ request = NoRequest
    /\ result = NoResult
    /\ epc = "idle"

\* The first call: crc is a local of the call, started at 0xFFFF.
ChecksumCall ==
    /\ epc = "idle"
    /\ result' = [NoResult EXCEPT !.bytes = modbusCRC16(bytes)]
    /\ epc' = "called"
    /\ UNCHANGED <<codec, request>>
    /\ UNCHANGED decodeVars

\* A second call on the same sequence.
ChecksumAgain ==
    /\ epc = "called"
    /\ result' = [NoResult EXCEPT !.bytes = modbusCRC16(bytes)]
    /\ epc' = "again"
    /\ UNCHANGED <<codec, request>>
    /\ UNCHANGED decodeVars

\* A call on the sequence with the byte at one index replaced by another byte.
ChecksumChanged ==
    /\ epc \in {"called", "again"}
    /\ \E i \in 1..Len(bytes) : \E v \in CrcVals \ {bytes[i]} :
          /\ bytes' = [bytes EXCEPT ![i] = v]
          /\ result' = [NoResult EXCEPT !.bytes = modbusCRC16([bytes EXCEPT ![i] = v])]
    /\ epc' = "changed"
    /\ UNCHANGED <<codec, request>>
    /\ UNCHANGED <<fPort, idx, data, errors, warnings, pc, reads>>

NextChecksum == ChecksumCall \/ ChecksumAgain \/ ChecksumChanged

SpecChecksum == InitChecksum /\ [][NextChecksum]_vars

(***************************************************************************)
(* A status block decoded and one of its writable attributes encoded       *)
(* again: decodeUplink, then encodeDownlink on what it returned.           *)
(***************************************************************************)
\* Register values of the set temperature, the work mode and the fan speed: in
\* range, at the ends of the range and out of it.  65036 is -500 as a signed cell.
TemperatureCells == {0, 1000, 2550, 3500, 4000, 32768, 65036}
ModeCells == {0, 1, 3, 4, 259}
SpeedCells == {0, 2, 4, 5, 260}

Cell(v) == <<HiByte(v), LoByte(v)>>

\* A frame whose one tag is a normal status block of the registers 0 to 6
\* (src/unnamed/part_004:939-951 has such a frame).
StatusFrame(t, m, f) ==
    <<0, 149, 16>> \o <<0, 0>> \o Cell(0) \o Cell(0) \o Cell(0) \o Cell(0)
        \o Cell(t) \o Cell(m) \o Cell(f)

InitRoundTrip ==
    /\ bytes \in {StatusFrame(t, m, f) :
                     t \in TemperatureCells, m \in ModeCells, f \in SpeedCells}
    /\ fPort = 210
    /\ idx = 0
    /\ data = EmptyMap
    /\ errors = <<>>
    /\ warnings = <<>>
    /\ pc = "start"
    /\ reads = {}
    /\ codec = "unified"
    /\ request = NoRequest
    /\ result = NoResult
    /\ epc = "idle"

\* The JavaScript number a decoded attribute holds, in thousandths.
Thousandths(v) == IF v[1] = "dec" THEN (v[2] * 1000) \div v[3] ELSE v[2] * 1000

\* The control request for one decoded attribute of the thermostat.
RequestFor(name, d) ==
    LET w == [NoRequest EXCEPT !.model = "W8004"]
    IN  CASE name = "setTemperature" ->
               [w EXCEPT !.setTemperature = <<Thousandths(d[name])>>]
          [] name = "workMode" -> [w EXCEPT !.workMode = <<Thousandths(d[name])>>]
          [] name = "fanSpeed" -> [w EXCEPT !.fanSpeed = <<Thousandths(d[name])>>]

\* encodeDownlink (src/README.md:2591-2842) on a request that names one of the
\* attributes decodeUplink returned, with the value it returned.
ReEncode ==
    /\ pc = "done"
    /\ epc = "idle"
    /\ \E name \in {"setTemperature", "workMode", "fanSpeed"} :
          /\ Has(data, name)
          /\ request' = RequestFor(name, data)
          /\ result' = UnifiedEncodeDownlink(RequestFor(name, data))
    /\ epc' = "done"
    /\ UNCHANGED codec
    /\ UNCHANGED decodeVars

NextRoundTrip == DecodeEnter \/ DecodeStep \/ DecodeReturn \/ ReEncode

SpecRoundTrip == InitRoundTrip /\ [][NextRoundTrip]_vars
(***************************************************************************)
(* Properties of decodeUplink, checked under SpecDecode.                   *)
(***************************************************************************)
\* The loop is about to read the tag at idx.
AtTag == pc = "loop" /\ idx < Len(bytes)

\* The width of the value each fixed-width tag of the frames declares.
DeclaredWidth == (1 :> 1) @@ (2 :> 4) @@ (16 :> 2) @@ (148 :> 1)

\* The tag at idx is a fixed-width one and its value runs past the buffer's end.
TruncatedField ==
    /\ AtTag
    /\ At(bytes, idx) \in DOMAIN DeclaredWidth
    /\ idx + 1 + DeclaredWidth[At(bytes, idx)] > Len(bytes)

\* The tag at idx is the Modbus block, its length byte is present, and the
\* length it declares is more than the bytes that remain after it.
BlockOverrun ==
    /\ AtTag
    /\ At(bytes, idx) = 149
    /\ idx + 1 < Len(bytes)
    /\ idx + 2 + At(bytes, idx + 1) > Len(bytes)

TrimWarning == Msg("Modbus block exceeds payload, trimming")

\* C1: when decode reads a tag that has no case label, it appends a warning
\* naming the tag, leaves the attributes as they are, and the loop is over: no
\* byte after the tag is read as a tag or as a value.
C1_UnknownTagAborts ==
    [][ (AtTag /\ At(bytes, idx) \notin CodecTypes)
        => /\ Len(warnings') = Len(warnings) + 1
           /\ warnings'[Len(warnings')].type = At(bytes, idx)
           /\ data' = data
           /\ idx' >= Len(bytes) ]_vars

\* C2: when the value of a fixed-width tag would run past the end of the buffer,
\* decode appends a warning, writes no attribute, and the loop is over: no later
\* byte is read as a tag.
C2_TruncatedFieldAborts ==
    [][ TruncatedField
        => /\ Len(warnings') = Len(warnings) + 1
           /\ data' = data
           /\ idx' >= Len(bytes) ]_vars

\* C3: every index at which a decode call reads the buffer is less than the
\* buffer's length (and not negative).
C3_ReadsInBounds == \A i \in reads : 0 <= i /\ i < Len(bytes)

\* A call that read a two-byte value and then a string that the end of the
\* buffer, not a 0x00, terminates: the last byte was read and none after it.
C3_Witness ==
    /\ pc = "done"
    /\ Has(data, "temperature")
    /\ Has(data, "bootVersion")
    /\ bytes[Len(bytes)] # 0
    /\ (Len(bytes) - 1) \in reads

\* C4, as the specification states it: when the length the Modbus block declares
\* exceeds the bytes that remain, nothing is handed to parseModbusBlock, no
\* attribute is written, and decode ends with a warning.
C4_OverrunWritesNothing ==
    [][ BlockOverrun
        => /\ Len(warnings') = Len(warnings) + 1
           /\ data' = data
           /\ idx' >= Len(bytes) ]_vars

\* C4, amended: when the length the Modbus block declares exceeds the bytes that
\* remain, decode appends the "exceeds payload, trimming" warning, hands exactly
\* the bytes that remain to parseModbusBlock, which writes the attributes of the
\* complete cells among them, and moves the cursor to the end of the buffer.
C4_OverrunIsTrimmed ==
    [][ BlockOverrun
        => /\ warnings' = Append(warnings, TrimWarning)
           /\ data' = parseModbusBlock(SubSeq(bytes, idx + 3, Len(bytes)), data)
           /\ idx' = Len(bytes) ]_vars

\* A call on a frame whose only tag is a Modbus block that declares more bytes
\* than follow it: the trimmed block still wrote the version register.
C4_Witness ==
    /\ pc = "done"
    /\ Len(bytes) >= 7
    /\ bytes[2] = 149
    /\ bytes[3] > Len(bytes) - 3
    /\ warnings = <<TrimWarning>>
    /\ Has(data, "softwareVersion")
(***************************************************************************)
(* Properties of encodeDownlink, checked under SpecEncode.                 *)
(***************************************************************************)
\* The attribute names each codec writes to a register, and the registers.
UnifiedTable ==
    { <<"setTemperature", 4>>, <<"workMode", 5>>, <<"fanSpeed", 6>>,
      <<"powerState", 61440>>, <<"keyLockState", 61441>> }

DeviceTable ==
    { <<"setTemperature", 4>>, <<"workMode", 5>>, <<"fanSpeed", 6>>,
      <<"remotePower", 61440>>, <<"remoteLock", 61441>>, <<"remoteReboot", 61442>>,
      <<"remoteClear", 61443>>, <<"wirelessSignal", 61444>> }

\* The register writes the request resolves to in the codec called: the unified
\* codec resolves register writes for the model "W8004" only.
Resolved ==
    IF codec = "unified"
    THEN IF request.model = "W8004"
         THEN {t \in UnifiedTable : Defined(request[t[1]])}
         ELSE {}
    ELSE {t \in DeviceTable : Defined(request[t[1]])}

Addresses == {t[2] : t \in Resolved}

Lowest == CHOOSE t \in Resolved : \A u \in Resolved : t[2] <= u[2]

\* The sorted addresses form an unbroken run.
Contiguous == \A a \in Addresses : a = Lowest[2] \/ (a - 1) \in Addresses

\* The 16-bit register value of the attribute t of the request.
RegisterValue(t) ==
    LET v == request[t[1]][1]
    IN  CASE t[1] = "setTemperature" -> ((v + 5) \div 10) % 65536
          [] t[1] = "workMode" -> Max(0, Min(3, (v + 500) \div 1000))
          [] t[1] = "fanSpeed" -> Max(0, Min(4, (v + 500) \div 1000))
          [] t[1] = "wirelessSignal" -> Max(0, Min(3, (v + 500) \div 1000))
          [] OTHER -> IF v # 0 THEN 1 ELSE 0

IsSingleWriteOf(b, t) ==
    /\ Len(b) = 6
    /\ b[1] = 6 /\ b[2] = 6
    /\ b[3] * 256 + b[4] = t[2]
    /\ b[5] * 256 + b[6] = RegisterValue(t)
    /\ \A k \in 1..6 : b[k] \in 0..255

IsMultiWrite(b) == Len(b) >= 10 /\ b[1] = 7 /\ b[3] = 16

\* The names the request gives a value to, among the attributes of either codec.
Named ==
    {f \in {"setTemperature", "workMode", "fanSpeed", "powerState", "keyLockState",
            "lockState", "remotePower", "remoteLock", "remoteReboot", "remoteClear",
            "wirelessSignal"} : Defined(request[f])}

\* The request names exactly the attributes of S, no model and no node identifier.
Alone(S) ==
    /\ Named = S
    /\ request.model = ""
    /\ ~Defined(request.rs485Addr)
    /\ ~Defined(request.slaveAddr)
    /\ ~Defined(request.brightness)

\* C5: a request that resolves to exactly one register write is answered by the
\* six bytes 06 06 addrHi addrLo valHi valLo and no error; the request
\* {setTemperature: 25.5} alone is answered by 06 06 00 04 09 F6.
C5_SingleWrite ==
    epc = "done" =>
        /\ Cardinality(Resolved) = 1
             => IsSingleWriteOf(result.bytes, Lowest) /\ result.errors = <<>>
        /\ (Alone({"setTemperature"}) /\ request.setTemperature = <<25500>>)
             => result.bytes = <<6, 6, 0, 4, 9, 246>> /\ result.errors = <<>>

C7_GapWarningNamesDropped ==
    (epc = "done" /\ Cardinality(Resolved) >= 2 /\ ~Contiguous) =>
        /\ IsSingleWriteOf(result.bytes, Lowest)
        /\ \E k \in 1..Len(result.warnings) :
              {t[1] : t \in Resolved \ {Lowest}} \subseteq result.warnings[k].fields

\* C8: the request {setTemperature: 25.5, workMode: 1, fanSpeed: 2} is answered
\* by 07 nodeId 10 00 04 00 03 06 09 F6 00 01 00 02 and the two checksum bytes of
\* nodeId .. 02, the low one first (nodeId is 1 when the request names none).
C8_ThreeRegisterFrame ==
    (/\ epc = "done"
     /\ Alone({"setTemperature", "workMode", "fanSpeed"})
     /\ request.setTemperature = <<25500>>
     /\ request.workMode = <<1000>>
     /\ request.fanSpeed = <<2000>>)
    => result.bytes = <<7, 1, 16, 0, 4, 0, 3, 6, 9, 246, 0, 1, 0, 2, 191, 216>>

\* C9: the last two bytes of every multi-write frame are the checksum of the
\* bytes from the node identifier to the last value byte, the low byte first.
C9_ChecksumTrailer ==
    (epc = "done" /\ IsMultiWrite(result.bytes)) =>
        LET n == Len(result.bytes)
            crc == CrcAccumulate(SubSeq(result.bytes, 2, n - 2), 0, CrcInit)
        IN  /\ result.bytes[n - 1] = crc % 256
            /\ result.bytes[n] = crc \div 256

\* A multi-write frame of five registers whose two checksum bytes differ.
C9_Witness ==
    /\ epc = "done"
    /\ IsMultiWrite(result.bytes)
    /\ Len(result.bytes) = 20
    /\ result.bytes[19] # result.bytes[20]

\* C10: when the request names no attribute either codec writes, encode fails:
\* errors is not empty and no bytes are returned.
C10_NoAttributeIsAnError ==
    (epc = "done" /\ Named = {}) =>
        /\ result.errors # <<>>
        /\ result.bytes = <<>>

\* What the codec called returns for the request d.
EncodeOf(d) ==
    IF codec = "unified" THEN UnifiedEncodeDownlink(d) ELSE DeviceEncodeDownlink(d)

\* The request names "brightness", which is in neither codec's table.
NamesUnknown == epc = "done" /\ Defined(request.brightness)

\* C11, as the specification states it: for an entry whose name is not in the
\* table, encode appends a warning that reports the name, and encodes the other
\* entries as if that entry were absent.
C11_UnknownNameWarned ==
    NamesUnknown =>
        /\ \E k \in 1..Len(result.warnings) : "brightness" \in result.warnings[k].fields
        /\ result.bytes = EncodeOf([request EXCEPT !.brightness = <<>>]).bytes

\* C11, amended: an entry whose name is not in the table is ignored without a
\* warning: the call returns exactly what it returns for the request without
\* that entry, bytes, errors and warnings alike.
C11_UnknownNameIgnored ==
    NamesUnknown =>
        /\ result = EncodeOf([request EXCEPT !.brightness = <<>>])
        /\ \A k \in 1..Len(result.warnings) : "brightness" \notin result.warnings[k].fields

\* A request that names brightness next to three known attributes, answered by
\* the multi-write frame of the three.
C11_Witness ==
    /\ NamesUnknown
    /\ Addresses = {4, 5, 6}
    /\ IsMultiWrite(result.bytes)
    /\ result.bytes[7] = 3
    /\ result.warnings = <<>>

\* The register writes a frame carries, as pairs <<address, value>>.
EmittedWrites(b) ==
    IF Len(b) = 6 /\ b[1] = 6 /\ b[2] = 6
    THEN {<<b[3] * 256 + b[4], b[5] * 256 + b[6]>>}
    ELSE IF IsMultiWrite(b)
    THEN {<<b[4] * 256 + b[5] + k, b[9 + 2 * k] * 256 + b[10 + 2 * k]>> :
             k \in 0..(b[6] * 256 + b[7] - 1)}
    ELSE {}

\* The value of the attribute t of the request, scaled, rounded and clamped to
\* the range the register map declares for it.
ClampedValue(t) ==
    LET v == request[t[1]][1]
    IN  CASE t[1] = "setTemperature" -> Max(1000, Min(3500, (v + 5) \div 10))
          [] t[1] = "workMode" -> Max(0, Min(3, (v + 500) \div 1000))
          [] t[1] = "fanSpeed" -> Max(0, Min(4, (v + 500) \div 1000))
          [] t[1] = "wirelessSignal" -> Max(0, Min(3, (v + 500) \div 1000))
          [] OTHER -> IF v # 0 THEN 1 ELSE 0

\* C12: every register value of the frame encode returns is the value of the
\* request scaled, rounded to the nearest integer and clamped to the declared
\* range: workMode 0..3, fanSpeed 0..4, the flags 0..1, setTemperature x100
\* 1000..3500.
C12_ValuesClamped ==
    epc = "done" =>
        \A w \in EmittedWrites(result.bytes) :
            \E t \in Resolved : t[2] = w[1] /\ w[2] = ClampedValue(t)

C14_ErrorsMeanEmptyResult ==
    /\ pc = "done" /\ errors # <<>> => data = EmptyMap
    /\ epc = "done" /\ result.errors # <<>> => result.bytes = <<>>

AtBlock == AtTag /\ At(bytes, idx) = 149 /\ idx + 1 < Len(bytes)

\* The bytes of that block: as many as it declares, or as remain.
Block == SubSeq(bytes, idx + 3, Min(idx + 2 + At(bytes, idx + 1), Len(bytes)))

\* The number of complete cells after the first, and the k-th of them (k from 0).
CellCount(m) == IF Len(m) < 2 THEN 0 ELSE (Len(m) - 2) \div 2

CellAt(m, k) == m[3 + 2 * k] * 256 + m[4 + 2 * k]

\* What a cell means at an address of either space.
CellMeaning(address, val, out) ==
    IF address >= SentinelBase THEN ControlCell(address, val, out)
                               ELSE StatusCell(address, val, out)

\* The cells k, k + 1, ... of m, the cell n interpreted at address base + n.
RECURSIVE Interpreted(_, _, _, _)
Interpreted(m, base, k, out) ==
    IF k >= CellCount(m) THEN out
    ELSE Interpreted(m, base, k + 1, CellMeaning(base + k, CellAt(m, k), out))

\* C18: in a register block the first 2-byte cell selects the addressing mode.
\* If it equals the sentinel 0xF000, the k-th following cell (k = 0, 1, ...) is
\* interpreted at address 0xF000 + k; otherwise at address k.
C18_AddressingMode ==
    [][ AtBlock
        => LET m == Block
               base == IF Len(m) >= 2 /\ m[1] * 256 + m[2] = SentinelBase
                       THEN SentinelBase ELSE 0
           IN  data' = Interpreted(m, base, 0, data) ]_vars

\* A sentinel block was decoded up to the signal strength at 0xF004, and by the
\* addresses of the other space it would have been a version and a status.
C18_Witness ==
    /\ pc = "done"
    /\ Len(bytes) >= 15
    /\ bytes[2] = 149 /\ bytes[4] = 240 /\ bytes[5] = 0
    /\ Has(data, "signalStrength") /\ data["signalStrength"] = Num(3)
    /\ ~Has(data, "hardwareVersion")

\* C19: the cursor of the register sub-decoder starts after the first cell and
\* advances by exactly 2 bytes per iteration; every iteration has its two bytes
\* inside the block, and the loop stops as soon as fewer than 2 bytes remain.
\* For a block of odd length the final byte is never read and contributes to no
\* attribute: the block without it decodes to the same attributes.
C19_CursorStepsByTwo ==
    [][ AtBlock
        => LET m == Block
               offs == RegisterOffsets(m, 2)
           IN  /\ \A n \in 1..Len(offs) : offs[n] = 2 * n /\ offs[n] + 1 < Len(m)
               /\ Len(m) - (2 + 2 * Len(offs)) < 2
               /\ Len(m) % 2 = 1 =>
                     /\ \A n \in 1..Len(offs) : offs[n] + 1 # Len(m) - 1
                     /\ data' = parseModbusBlock(SubSeq(m, 1, Len(m) - 1), data) ]_vars

\* A block of 13 bytes, the sentinel and five cells and one byte more, was
\* decoded: the five cells were written and the call returned without warning.
C19_Witness ==
    /\ pc = "done"
    /\ Len(bytes) = 16
    /\ bytes[2] = 149 /\ bytes[3] = 13
    /\ Has(data, "signalStrength")
    /\ warnings = IF fPort = 210 THEN <<>>
                  ELSE <<[msg |-> "Expected fPort 210", type |-> -1, pos |-> fPort]>>

\* C20: in a control/status register block (first cell 0xF000) each flag
\* attribute, power, lock, reboot request, clear request and signal strength, is
\* set to the low byte of its 16-bit cell, for every cell value.
C20_FlagsAreLowBytes ==
    [][ AtBlock /\ Len(Block) >= 2 /\ Block[1] * 256 + Block[2] = SentinelBase
        => LET m == Block
               flag == <<"powerState", "keyLockState", "rebootState", "clearState",
                         "signalStrength">>
           IN  \A k \in 0..(CellCount(m) - 1) :
                   k < Len(flag) =>
                       /\ Has(data', flag[k + 1])
                       /\ data'[flag[k + 1]] = Num(CellAt(m, k) % 256) ]_vars

(***************************************************************************)
(* Properties of decoding and encoding again, checked under SpecRoundTrip. *)
(***************************************************************************)
\* The register of the writable attribute the request names, the cell of that
\* register in the decoded frame, and the register value the encoder wrote.
NamedRegister ==
    CASE Defined(request.setTemperature) -> 4
      [] Defined(request.workMode) -> 5
      [] Defined(request.fanSpeed) -> 6

DecodedCell == bytes[6 + 2 * NamedRegister] * 256 + bytes[7 + 2 * NamedRegister]

EncodedCell == result.bytes[5] * 256 + result.bytes[6]

\* The range the register map gives the register (src/unnamed/part_000:120-127).
InRange(register, v) ==
    CASE register = 4 -> 1000 <= v /\ v <= 3500
      [] register = 5 -> v <= 3
      [] register = 6 -> v <= 4

C22_ChecksumPureAndSensitive ==
    [][ /\ Len(result'.bytes) = 2
        /\ \A k \in 1..2 : result'.bytes[k] \in 0..255
        /\ epc' = "again" => result'.bytes = result.bytes
        /\ epc' = "changed" => result'.bytes # result.bytes ]_vars

\* The checksum of 01 10 80 was taken after that of a sequence one byte away.
C22_Witness ==
    /\ epc = "changed"
    /\ bytes = <<1, 16, 128>>
    /\ result.bytes = modbusCRC16(<<1, 16, 128>>)
    /\ result.bytes # <<255, 255>>

\* C23: the checksum trailer of an outbound multi-write frame covers every byte
\* of the frame that precedes the trailer, from the node identifier to the last
\* value byte, and no other byte.  The frame with its trailer has the checksum
\* residue 0, which holds exactly when the trailer is the checksum of all the
\* bytes before it; the 0x07 marker put before the frame is not covered, and
\* neither end of the frame is left out.
C23_TrailerCoversFrame ==
    (epc = "done" /\ IsMultiWrite(result.bytes)) =>
        LET b == result.bytes
            n == Len(result.bytes)
            trailer == <<b[n - 1], b[n]>>
        IN  /\ b[1] = 7
            /\ CrcAccumulate(SubSeq(b, 2, n), 0, CrcInit) = 0
            /\ modbusCRC16(SubSeq(b, 1, n - 2)) # trailer
            /\ modbusCRC16(SubSeq(b, 3, n - 2)) # trailer
            /\ modbusCRC16(SubSeq(b, 2, n - 3)) # trailer

\* A multi-write frame of the unified codec to node 7, three registers long.
C23_Witness ==
    /\ epc = "done"
    /\ codec = "unified"
    /\ IsMultiWrite(result.bytes)
    /\ Len(result.bytes) = 16
    /\ result.bytes[2] = 7

(***************************************************************************)
(* A tag that comes more than once in a frame, checked under SpecDecode.   *)
(***************************************************************************)
\* The tags the loop has decoded before it came to index stop.
RECURSIVE TagsBefore(_, _, _)
TagsBefore(b, j, stop) ==
    IF j >= stop THEN {}
    ELSE {At(b, j)}
         \cup TagsBefore(b, DecodeType(b, At(b, j), j + 1, EmptyMap, <<>>).idx, stop)

\* The attributes the case of each tag can write.
AttributesOf(type) ==
    CASE type = 1 -> {"model"}
      [] type = 2 -> {"downlinkCount"}
      [] type = 6 -> {"bootVersion"}
      [] type = 9 -> {"hardwareVersion"}
      [] type = 16 -> {"temperature"}
      [] type = 34 -> {"powerState", "switchStates"}
      [] type = 148 -> {"rs485Addr"}
      [] type = 149 -> {"powerState", "keyLockState", "rebootState", "clearState",
                        "signalStrength", "hardwareVersion", "softwareVersion",
                        "valveState", "temperature", "humidity", "setTemperature",
                        "workMode", "fanSpeed", "cumulativeOnTime",
                        "cumulativeValveOpenTime"}
      [] type = 186 -> {"beacon0", "beacon1", "beacon2"}

Forget(d, names) == [k \in (DOMAIN d) \ names |-> d[k]]

\* The loop is at a tag it has decoded before in this frame, and this occurrence
\* is complete: it is decoded without a warning and without a throw.
RepeatedTag(tags) ==
    /\ AtTag
    /\ At(bytes, idx) \in tags
    /\ At(bytes, idx) \in TagsBefore(bytes, 1, idx)
    /\ warnings' = warnings
    /\ errors' = errors

\* What the occurrence at idx leaves in the map when nothing an earlier
\* occurrence of its tag can have written is in it.
LastAlone ==
    DecodeType(bytes, At(bytes, idx), idx + 1,
               Forget(data, AttributesOf(At(bytes, idx))), warnings).data

\* The tags that write one attribute from the bytes of the occurrence alone.
ScalarTags == {1, 2, 6, 9, 16, 148}

\* C24: if the same tag appears more than once in one frame, the attribute holds
\* the value decoded from the last occurrence and nothing derived from an
\* earlier occurrence remains in the map, whatever the tag.
C24_LastOccurrenceOnly ==
    [][ RepeatedTag({1, 2, 6, 9, 16, 34, 148, 149, 186}) => data' = LastAlone ]_vars

\* C24, amended: last-write-wins holds for the tags that write one scalar
\* attribute (model, downlink count, version strings, temperature, RS485
\* address, and the relay state 0x22 of a device that is not a DS-103): a later
\* occurrence overwrites the attribute and nothing of the earlier value
\* remains.  It does not hold for the relay state of a DS-103, whose
\* occurrences are collected one after another in switchStates, for beacon
\* blocks, which fill beacon0, beacon1 and beacon2 in turn, and for register
\* blocks, which overwrite only the attributes of the cells they carry.
C24_ScalarLastWins ==
    [][ /\ RepeatedTag(ScalarTags) => data' = LastAlone
        /\ (RepeatedTag({34}) /\ ~(Has(data, "model") /\ data["model"] = Model("DS-103")))
              => data' = LastAlone /\ data'["powerState"] = Num(At(bytes, idx + 1)) ]_vars

\* Two temperatures in one frame, 25.00 and then -1.56: the second is returned.
C24_Witness ==
    /\ pc = "done"
    /\ bytes = <<0, 16, 9, 196, 16, 255, 100>>
    /\ Has(data, "temperature")
    /\ data["temperature"] = Dec(-156, 100)

(***************************************************************************)
(* Calls in progress at the same time, checked under SpecConcurrent.       *)
(***************************************************************************)
\* What decodeUplink returns for the buffer b on the port p when it runs from
\* its first statement to its return with nothing in between.
RECURSIVE LoopAlone(_, _, _, _)
LoopAlone(b, i, d, w) ==
    IF i >= Len(b)
    THEN [data |-> postProcessData(d), errors |-> <<>>, warnings |-> w]
    ELSE LET type == At(b, i)
             r == DecodeType(b, type, i + 1, d, w)
         IN  IF "thrown" \in DOMAIN r /\ r.thrown # ""
             THEN [data |-> postProcessData(r.data),
                   errors |-> <<[msg |-> "Parse error", type |-> type,
                                 pos |-> -1, error |-> r.thrown]>>,
                   warnings |-> r.warnings]
             ELSE LoopAlone(b, r.idx, r.data, r.warnings)

DecodeAlone(b, p) ==
    LET w == IF p # 210
             THEN <<[msg |-> "Expected fPort 210", type |-> -1, pos |-> p]>>
             ELSE <<>>
    IN  IF p \notin {210, 2, 220}
        THEN [data |-> EmptyMap,
              errors |-> <<[msg |-> "Unsupported fPort", type |-> -1, pos |-> p]>>,
              warnings |-> w]
        ELSE IF Len(b) < 2
        THEN [data |-> EmptyMap,
              errors |-> <<Msg("Payload too short (minimum 2 bytes required)")>>,
              warnings |-> w]
        ELSE LoopAlone(b, 1, EmptyMap, w)

\* What the codec called returns for the request d when it runs alone.
EncodeAlone(d) ==
    CASE codec = "unified" -> UnifiedEncodeDownlink(d)
      [] codec = "device" -> DeviceEncodeDownlink(d)
      [] codec = "earlier" -> EarlierEncodeDownlink(d)

C26_LiquidLevel ==
    [][ (AtTag /\ At(bytes, idx) = 128 /\ idx + 2 < Len(bytes))
        => /\ Has(data', "liquidLevel")
           /\ data'["liquidLevel"] = Dec(readUint16BE(bytes, idx + 1), 10)
           /\ idx' = idx + 3 ]_vars

(***************************************************************************)
(* The AT mode and the raw Modbus mode, checked under SpecEncode.          *)
(***************************************************************************)
\* The request gives the unified codec an array of several AT commands, the
\* reboot command among them.
SeveralWithReboot ==
    /\ epc = "done"
    /\ codec = "unified"
    /\ Defined(request.at)
    /\ request.at[1].array
    /\ Len(cmdStrings(request.at[1].cmds)) >= 2
    /\ \E k \in 1..Len(request.at[1].cmds) : request.at[1].cmds[k] = AtReboot

\* C27: when several AT commands are encoded into one downlink, the reboot
\* command is the last command of the payload, whatever its position in the
\* request: the payload ends with "AT+REBOOT\r\n".
C27_RebootLast ==
    SeveralWithReboot =>
        LET b == result.bytes
            n == Len(result.bytes)
        IN  /\ n >= Len(AtReboot) + 3
            /\ SubSeq(b, n - Len(AtReboot) - 1, n) = AtReboot \o <<13, 10>>

\* The request gives the unified codec a non-empty modbusRaw array of bytes, and
\* no AT command, which would be taken first.
RawFrameRequest ==
    /\ epc = "done"
    /\ codec = "unified"
    /\ ~Defined(request.at)
    /\ Defined(request.modbusRaw)
    /\ request.modbusRaw[1].array
    /\ request.modbusRaw[1].v # <<>>
    /\ \A k \in 1..Len(request.modbusRaw[1].v) : request.modbusRaw[1].v[k] \in 0..255

\* C28: for every non-empty modbusRaw byte array F, encodeDownlink returns bytes
\* equal to [0x07] followed by F unchanged, on fPort 2, with no errors.
C28_RawFramePrefixed ==
    RawFrameRequest =>
        /\ result.bytes = <<7>> \o request.modbusRaw[1].v
        /\ result.fPort = 2
        /\ result.errors = <<>>

(***************************************************************************)
(* Termination of the decode loop, checked under SpecDecodeFair.           *)
(***************************************************************************)
\* C29: for every finite buffer the decode loop terminates after at most
\* buffer.length iterations.  Every iteration starts with the cursor inside the
\* buffer and leaves it strictly greater, whether it decodes a value, hits a
\* truncated field, an unknown tag or an unterminated string, or is left by a
\* throw; and every call comes to its return.
C29_LoopTerminates ==
    /\ [][ (pc = "loop" /\ pc' # "done") => (idx < Len(bytes) /\ idx' > idx) ]_vars
    /\ <>(pc = "done")

\* A call that met an unknown tag, then a string that runs to the end of the
\* buffer without its 0x00, and returned with the cursor at the end.
C29_Witness ==
    /\ pc = "done"
    /\ idx = Len(bytes)
    /\ Has(data, "bootVersion")
    /\ bytes[Len(bytes)] # 0
    /\ \E k \in 1..Len(warnings) : warnings[k].msg = "Unknown type, skipping"

(***************************************************************************)
(* The elements of the bytes encode returns, checked under SpecEncode.     *)
(***************************************************************************)
\* C30: every element of the byte array encode returns is an integer in 0..255,
\* for every request, a node identifier (rs485Addr, slaveAddr) or a
\* setTemperature outside the usual range included.
C30_BytesAreBytes ==
    epc = "done" => \A k \in 1..Len(result.bytes) : result.bytes[k] \in 0..255

====
